---- MODULE Spec2Model ----
(***************************************************************************)
(* RadixTree<T> of src/radix.h: a lock-free radix tree keyed by T::getId().*)
(* Every atomic access of a slot (load, compare_exchange_strong) is one    *)
(* step of the calling thread; the thread-local computation that follows   *)
(* an access is part of the same step.                                     *)
(*                                                                         *)
(* Words: a RadixElement is its raw word.  Pointers are even numbers       *)
(* (alignof >= 2), the null pointer is 0.  A uint32_t is held as the       *)
(* 32-bit two's complement representative of its bit pattern, so that      *)
(* 0 - 1 = 0xFFFFFFFF is the number -1.                                    *)
(*                                                                         *)
(* Nodes: the address MakeUnique gives a RadixNode is opaque to the code,  *)
(* and nothing but newChild of the allocating thread refers to the node    *)
(* until the CAS of line 132 stores it.  The model holds such a node in    *)
(* newChild of its thread and numbers the nodes in the order in which they *)
(* are published; heap holds the published nodes.                          *)
(*                                                                         *)
(* Calls: a thread that is in no call holds nothing of the tree, so the    *)
(* threads that are in no call are interchangeable and a call is started   *)
(* by the first of them.  last holds the call that returned last.          *)
(***************************************************************************)
EXTENDS Integers, Sequences, FiniteSets, TLC

\* ---------------------------------------------------------------- bounds
NumThreads == 2
NumValues == 3
MaxCalls == 3
MaxSeqCalls == 4
MaxDeepCalls == 2

\* ------------------------------------------------------ program constants
BITS == 4
MASK == (2 ^ BITS) - 1
CHILD_PER_LEVEL == 2 ^ BITS
KEY_BITS == 32
\* A top level that leaves out the chunk of the highest bits.
TopLevelShort == ((KEY_BITS - 1) \div BITS) - 1

TOP_LEVEL == (KEY_BITS - 1) \div BITS
DISCRIMINANT == 1
nullptr == 0

Threads == 1 .. NumThreads

\* The T objects of the run: object i lives at the even address 2*i.
ValuePtrs == {2 * i : i \in 1 .. NumValues}

\* The key whose chunk of level lvl is c and whose other chunks are 0.
ChunkKey(lvl, c) == c * (2 ^ (lvl * BITS))

\* Ids of the concurrent runs.  KeyA and KeyB differ in the chunk of level
\* 6 only, KeyC differs from both in the chunk of level 7; no object has the
\* id KeyNever, which shares the chunk of level 7 with KeyA and KeyB.
KeyA == ChunkKey(0, 1)                          \* 0x00000001
KeyB == ChunkKey(6, 1) + ChunkKey(0, 1)         \* 0x01000001
KeyC == ChunkKey(7, 1) + ChunkKey(0, 1)         \* 0x10000001
KeyNever == ChunkKey(6, 2) + ChunkKey(0, 1)     \* 0x02000001
KeyList == <<KeyA, KeyB, KeyB, KeyC>>
GetKeys == {KeyB, KeyNever}

\* Ids of the sequential runs.  Key01 and Key11 differ in the chunk of
\* level 1 only, Key10 and Key11 in the chunk of level 0 only.
Key01 == ChunkKey(0, 1)                         \* 0x00000001
Key11 == ChunkKey(1, 1) + ChunkKey(0, 1)        \* 0x00000011
Key10 == ChunkKey(1, 1)                         \* 0x00000010
Key21 == ChunkKey(1, 2) + ChunkKey(0, 1)        \* 0x00000021, the id of no object
SeqKeyList == <<Key01, Key11, Key10, KeyC>>
SeqGetKeys == {Key01, Key11, Key10, KeyC, Key21}

\* The ids of the objects of the concurrent runs: the ids of KeyList in
\* turn, so that two objects carry KeyB.
IdTable ==
    [v \in ValuePtrs |-> KeyList[(((v \div 2) - 1) % Len(KeyList)) + 1]]

\* The ids of the objects of the sequential runs are pairwise distinct.
SeqIdTable ==
    [v \in ValuePtrs |-> SeqKeyList[(((v \div 2) - 1) % Len(SeqKeyList)) + 1]]

\* RadixNode objects are allocated above the T objects.
NodeBase == 2 * (NumValues + 1)

VARIABLES
    root,      \* std::atomic<RadixElement> root
    heap,      \* the published RadixNode objects: address -> childs
    id,        \* T::getId() of every T object
    pc,        \* position of every thread in get / insert
    op,        \* the call a thread is in
    key,       \* parameter key
    value,     \* parameter value of insert
    level,     \* local level
    eptr,      \* local eptr of insert: <<node address, index>>, <<0, 0>> = &root
    e,         \* local e
    newChild,  \* local newChild of insert: << >>, or <<childs>> of the node it owns
    calls,     \* number of calls started
    nStarted,  \* per T object: number of insert calls given it
    nFalse,    \* per T object: number of insert calls that returned false
    nTrue,     \* per T object: number of insert calls that returned true
    mustSee,   \* per get call: accepted objects with the key when it started
    steps,     \* per insert call: descents and CAS attempts so far
    fails,     \* per insert call: CAS failures so far
    wrote,     \* per insert call: successful CAS so far
    changed,   \* per insert call: a CAS of it changed the set of reachable leaves
    rcu,       \* per thread: the RCULock objects of its calls that are alive
    last       \* the call that returned last, with the value it returned

tree == <<root, heap>>
args == <<op, key, value>>
locals == <<level, eptr, e, newChild>>
counts == <<calls, nStarted, nFalse, nTrue>>
percall == <<mustSee, steps, fails, wrote, changed>>
vars == <<tree, id, pc, args, locals, counts, percall, rcu, last>>

\* ------------------------------------------------------------ RadixElement
EmptyElement == DISCRIMINANT

BitOr1(raw) == IF raw % 2 = 0 THEN raw + 1 ELSE raw

LeafElement(leafIn) == BitOr1(leafIn)

NodeElement(nodeIn) == nodeIn

getDiscriminent(raw) == (raw % 2) # 0

isNode(raw) == ~getDiscriminent(raw)

isLeaf(raw) == getDiscriminent(raw)

getNode(raw) == raw

getLeaf(raw) == raw - (raw % 2)

\* --------------------------------------------------------------- RadixNode
ChildIndex(lvl, k) == (k \div (2 ^ (lvl * BITS))) % (MASK + 1)

\* A constructor that leaves out the store of line 198.
NewNodeEmpty(lvl, k, elem) ==
    [i \in 0 .. (CHILD_PER_LEVEL - 1) |-> EmptyElement]

\* A constructor that stores the element in the first slot.
NewNodeFirstSlot(lvl, k, elem) ==
    [i \in 0 .. (CHILD_PER_LEVEL - 1) |->
        IF i = 0 THEN elem ELSE EmptyElement]

\* A constructor that stores the element at the chunk of the level below.
NewNodeLevelBelow(lvl, k, elem) ==
    [i \in 0 .. (CHILD_PER_LEVEL - 1) |->
        IF i = ChildIndex(lvl - 1, k) THEN elem ELSE EmptyElement]

NewNode(lvl, k, elem) ==
    [i \in 0 .. (CHILD_PER_LEVEL - 1) |->
        IF i = ChildIndex(lvl, k) THEN elem ELSE EmptyElement]

\* level in place of level--
Dec32Forgotten(lvl) == lvl

\* uint32_t level--
Dec32(lvl) == lvl - 1

\* ------------------------------------------------------------------ memory
RootPtr == <<0, 0>>

Load(p) == IF p = RootPtr THEN root ELSE heap[p[1]][p[2]]

Store(p, elem) ==
    IF p = RootPtr
    THEN root' = elem /\ heap' = heap
    ELSE root' = root /\ heap' = [heap EXCEPT ![p[1]][p[2]] = elem]

\* The address of the next node that is published.
NextNodePtr == NodeBase + 2 * Cardinality(DOMAIN heap)

\* The CAS of line 132 has stored newChild.get(); newChild.release().
Publish(childs) ==
    [a \in (DOMAIN heap) \cup {NextNodePtr} |->
        IF a = NextNodePtr THEN childs ELSE heap[a]]

\* The CAS of line 132 has succeeded: the slot holds the node, which is
\* published with the childs its constructor gave it.
StoreNode(p, childs) ==
    IF p = RootPtr
    THEN root' = NodeElement(NextNodePtr) /\ heap' = Publish(childs)
    ELSE /\ root' = root
         /\ heap' = [Publish(childs) EXCEPT ![p[1]][p[2]] =
                        NodeElement(NextNodePtr)]

\* A plain store in place of the CAS.
CasOkAlways(p, expected) == TRUE

\* A CAS that fails although the slot holds the expected value, as
\* compare_exchange_weak may.
CasOkNever(p, expected) == FALSE

\* compare_exchange_strong(expected, desired): the comparison
CasOk(p, expected) == Load(p) = expected

\* The T objects held by the slots reachable from slot value x in heap h.
RECURSIVE LeavesIn(_, _)
LeavesIn(h, x) ==
    IF isNode(x)
    THEN UNION {LeavesIn(h, h[getNode(x)][i]) : i \in 0 .. (CHILD_PER_LEVEL - 1)}
    ELSE IF getLeaf(x) = nullptr THEN {} ELSE {getLeaf(x)}

ReachableLeaves == LeavesIn(heap, root)

\* The T objects whose insert returned true.
AcceptedSet == {v \in ValuePtrs : nTrue[v] > 0}

\* -------------------------------------------------------------------- Init
NoCall ==
    [op |-> "none", key |-> 0, value |-> nullptr, ret |-> 0, mustSee |-> {},
     steps |-> 0, fails |-> 0, wrote |-> 0, changed |-> FALSE, rcu |-> 0]

TypeStart ==
    /\ root = EmptyElement
    /\ heap = << >>
    /\ pc = [t \in Threads |-> "idle"]
    /\ op = [t \in Threads |-> "none"]
    /\ key = [t \in Threads |-> 0]
    /\ value = [t \in Threads |-> nullptr]
    /\ level = [t \in Threads |-> 0]
    /\ eptr = [t \in Threads |-> RootPtr]
    /\ e = [t \in Threads |-> EmptyElement]
    /\ newChild = [t \in Threads |-> << >>]
    /\ calls = 0
    /\ nStarted = [v \in ValuePtrs |-> 0]
    /\ nFalse = [v \in ValuePtrs |-> 0]
    /\ nTrue = [v \in ValuePtrs |-> 0]
    /\ mustSee = [t \in Threads |-> {}]
    /\ steps = [t \in Threads |-> 0]
    /\ fails = [t \in Threads |-> 0]
    /\ wrote = [t \in Threads |-> 0]
    /\ changed = [t \in Threads |-> FALSE]
    /\ rcu = [t \in Threads |-> 0]
    /\ last = NoCall

Init ==
    /\ TypeStart
    /\ id = IdTable

SeqInit ==
    /\ TypeStart
    /\ id = SeqIdTable

\* ------------------------------------------------------------------- calls
\* The first thread that is in no call.
FirstIdle(t) == pc[t] = "idle" /\ \A u \in Threads : u < t => pc[u] # "idle"

\* The callers of a concurrent run make MaxCalls calls in all.
CanStart(t) == FirstIdle(t) /\ calls < MaxCalls

\* The callers of a concurrent run hand an object to insert once.
NotGiven(v) == nStarted[v] = 0

\* The callers of a sequential run call one after another.
SeqCanStart(t) ==
    /\ FirstIdle(t)
    /\ \A u \in Threads : pc[u] = "idle"
    /\ calls < MaxSeqCalls

\* A call returns r: its locals, the RCULock among them, go out of scope;
\* last.rcu is what the caller holds of them when it has the result.
\* st, fl, wr and ch are its
\* descents and CAS attempts, its failed CAS, its successful CAS, and
\* whether one of them changed the set of reachable leaves.
Return(t, r, st, fl, wr, ch) ==
    /\ last' = [op |-> op[t], key |-> key[t], value |-> value[t], ret |-> r,
                mustSee |-> mustSee[t], steps |-> st, fails |-> fl,
                wrote |-> wr, changed |-> ch, rcu |-> rcu[t] - 1]
    /\ pc' = [pc EXCEPT ![t] = "idle"]
    /\ op' = [op EXCEPT ![t] = "none"]
    /\ key' = [key EXCEPT ![t] = 0]
    /\ value' = [value EXCEPT ![t] = nullptr]
    /\ level' = [level EXCEPT ![t] = 0]
    /\ eptr' = [eptr EXCEPT ![t] = RootPtr]
    /\ e' = [e EXCEPT ![t] = EmptyElement]
    /\ newChild' = [newChild EXCEPT ![t] = << >>]
    /\ rcu' = [rcu EXCEPT ![t] = @ - 1]
    /\ mustSee' = [mustSee EXCEPT ![t] = {}]
    /\ steps' = [steps EXCEPT ![t] = 0]
    /\ fails' = [fails EXCEPT ![t] = 0]
    /\ wrote' = [wrote EXCEPT ![t] = 0]
    /\ changed' = [changed EXCEPT ![t] = FALSE]

\* ------------------------------------------------------------------ insert
\* An insert that loads the slot again when it holds a leaf.
DispatchSpin(x) ==
    IF isNode(x) THEN "descend"
    ELSE IF getLeaf(x) = nullptr THEN "cas"
    ELSE "load"

\* Where insert goes after it has loaded x into e (lines 104, 111, 117).
Dispatch(x) ==
    IF isNode(x) THEN "descend"
    ELSE IF getLeaf(x) = nullptr THEN "cas"
    ELSE "leaf"

\* insert(T *value), lines 62 and 94-98
InsertCall(t, v) ==
    /\ pc' = [pc EXCEPT ![t] = "load"]
    /\ op' = [op EXCEPT ![t] = "insert"]
    /\ value' = [value EXCEPT ![t] = v]
    /\ key' = [key EXCEPT ![t] = id[v]]
    /\ level' = [level EXCEPT ![t] = TOP_LEVEL]
    /\ eptr' = [eptr EXCEPT ![t] = RootPtr]
    /\ calls' = calls + 1
    /\ nStarted' = [nStarted EXCEPT ![v] = @ + 1]
    /\ rcu' = [rcu EXCEPT ![t] = @ + 1]
    /\ UNCHANGED <<tree, id, e, newChild, nFalse, nTrue, percall, last>>

\* An insert that returns false where line 113 returns true, and true where
\* line 125 returns false.
InsertReturnNegated(t, r, st, fl, wr, ch) ==
    /\ Return(t, 1 - r, st, fl, wr, ch)
    /\ nTrue' = IF r = 0 THEN [nTrue EXCEPT ![value[t]] = @ + 1] ELSE nTrue
    /\ nFalse' = IF r = 1 THEN [nFalse EXCEPT ![value[t]] = @ + 1] ELSE nFalse
    /\ UNCHANGED <<id, calls, nStarted>>

\* return true (line 113) or false (line 125)
InsertReturn(t, r, st, fl, wr, ch) ==
    /\ Return(t, r, st, fl, wr, ch)
    /\ nTrue' = IF r = 1 THEN [nTrue EXCEPT ![value[t]] = @ + 1] ELSE nTrue
    /\ nFalse' = IF r = 0 THEN [nFalse EXCEPT ![value[t]] = @ + 1] ELSE nFalse
    /\ UNCHANGED <<id, calls, nStarted>>

\* line 101
InsertLoad(t) ==
    /\ pc[t] = "load"
    /\ e' = [e EXCEPT ![t] = Load(eptr[t])]
    /\ pc' = [pc EXCEPT ![t] = Dispatch(e'[t])]
    /\ UNCHANGED <<tree, id, args, level, eptr, newChild, counts, percall,
                   rcu, last>>

\* lines 106-107
InsertDescend(t) ==
    /\ pc[t] = "descend"
    /\ LET p == <<getNode(e[t]), ChildIndex(level[t], key[t])>>
       IN  /\ eptr' = [eptr EXCEPT ![t] = p]
           /\ level' = [level EXCEPT ![t] = Dec32(level[t])]
           /\ e' = [e EXCEPT ![t] = Load(p)]
    /\ pc' = [pc EXCEPT ![t] = Dispatch(e'[t])]
    /\ steps' = [steps EXCEPT ![t] = @ + 1]
    /\ UNCHANGED <<tree, id, args, newChild, counts, mustSee, fails, wrote,
                   changed, rcu, last>>

\* lines 111-120
InsertCasEmpty(t) ==
    /\ pc[t] = "cas"
    /\ IF CasOk(eptr[t], e[t])
       THEN /\ Store(eptr[t], LeafElement(value[t]))
            /\ InsertReturn(t, 1, steps[t] + 1, fails[t], wrote[t] + 1,
                  changed[t] \/ LeavesIn(heap', root') # ReachableLeaves)
       ELSE /\ e' = [e EXCEPT ![t] = Load(eptr[t])]
            /\ pc' = [pc EXCEPT ![t] = IF isNode(e'[t]) THEN "descend"
                                        ELSE "leaf"]
            /\ steps' = [steps EXCEPT ![t] = @ + 1]
            /\ fails' = [fails EXCEPT ![t] = @ + 1]
            /\ UNCHANGED <<tree, id, args, level, eptr, newChild, counts,
                           mustSee, wrote, changed, rcu, last>>

\* A test for an occupied slot in place of the comparison of the keys.
AlreadyPresentAny(k, leafKey) == TRUE

\* line 124
AlreadyPresent(k, leafKey) == k = leafKey

\* lines 123-131
InsertLeaf(t) ==
    /\ pc[t] = "leaf"
    /\ LET leafKey == id[getLeaf(e[t])]
       IN  IF AlreadyPresent(key[t], leafKey)
           THEN InsertReturn(t, 0, steps[t], fails[t], wrote[t], changed[t])
           ELSE /\ newChild' = [newChild EXCEPT ![t] =
                                    <<NewNode(level[t], leafKey, e[t])>>]
                /\ pc' = [pc EXCEPT ![t] = "split"]
                /\ UNCHANGED <<id, args, level, eptr, e, counts, percall,
                               rcu, last>>
    /\ UNCHANGED tree

\* lines 132-137
InsertCasSplit(t) ==
    /\ pc[t] = "split"
    /\ steps' = [steps EXCEPT ![t] = @ + 1]
    /\ IF CasOk(eptr[t], e[t])
       THEN /\ StoreNode(eptr[t], newChild[t][1])
            /\ wrote' = [wrote EXCEPT ![t] = @ + 1]
            /\ changed' = [changed EXCEPT ![t] =
                   @ \/ LeavesIn(heap', root') # ReachableLeaves]
            /\ UNCHANGED <<e, fails>>
       ELSE /\ e' = [e EXCEPT ![t] = Load(eptr[t])]
            /\ fails' = [fails EXCEPT ![t] = @ + 1]
            /\ UNCHANGED <<tree, wrote, changed>>
    /\ newChild' = [newChild EXCEPT ![t] = << >>]
    /\ pc' = [pc EXCEPT ![t] = "load"]
    /\ UNCHANGED <<id, args, level, eptr, counts, mustSee, rcu, last>>

\* --------------------------------------------------------------------- get
\* get without the RCULock of line 71.
GetCallUnguarded(t, k) ==
    /\ pc' = [pc EXCEPT ![t] = "gload"]
    /\ op' = [op EXCEPT ![t] = "get"]
    /\ key' = [key EXCEPT ![t] = k]
    /\ level' = [level EXCEPT ![t] = TOP_LEVEL]
    /\ calls' = calls + 1
    /\ mustSee' = [mustSee EXCEPT ![t] = {v \in AcceptedSet : id[v] = k}]
    /\ UNCHANGED <<tree, id, value, eptr, e, newChild, nStarted, nFalse,
                   nTrue, steps, fails, wrote, changed, rcu, last>>

\* lines 68-71
GetCall(t, k) ==
    /\ pc' = [pc EXCEPT ![t] = "gload"]
    /\ op' = [op EXCEPT ![t] = "get"]
    /\ key' = [key EXCEPT ![t] = k]
    /\ level' = [level EXCEPT ![t] = TOP_LEVEL]
    /\ calls' = calls + 1
    /\ mustSee' = [mustSee EXCEPT ![t] = {v \in AcceptedSet : id[v] = k}]
    /\ rcu' = [rcu EXCEPT ![t] = @ + 1]
    /\ UNCHANGED <<tree, id, value, eptr, e, newChild, nStarted, nFalse,
                   nTrue, steps, fails, wrote, changed, last>>

\* line 72
GetLoad(t) ==
    /\ pc[t] = "gload"
    /\ e' = [e EXCEPT ![t] = root]
    /\ pc' = [pc EXCEPT ![t] = IF isNode(e'[t]) THEN "gdescend" ELSE "gleaf"]
    /\ UNCHANGED <<tree, id, args, level, eptr, newChild, counts, percall,
                   rcu, last>>

\* lines 75-77
GetDescend(t) ==
    /\ pc[t] = "gdescend"
    /\ e' = [e EXCEPT ![t] =
               Load(<<getNode(e[t]), ChildIndex(level[t], key[t])>>)]
    /\ level' = [level EXCEPT ![t] = Dec32(level[t])]
    /\ pc' = [pc EXCEPT ![t] = IF isNode(e'[t]) THEN "gdescend" ELSE "gleaf"]
    /\ UNCHANGED <<tree, id, args, eptr, newChild, counts, percall, rcu,
                   last>>

\* get without the comparison of the keys of line 80.
GetResultAnyKey(leaf, k) == leaf

\* lines 80-86
GetResult(leaf, k) ==
    IF leaf = nullptr \/ id[leaf] # k THEN nullptr ELSE leaf

\* lines 79-86
GetReturn(t) ==
    /\ pc[t] = "gleaf"
    /\ Return(t, GetResult(getLeaf(e[t]), key[t]), 0, 0, 0, FALSE)
    /\ UNCHANGED <<tree, id, counts>>

\* get on a tree no insert is running on: lines 68-87 run to the end.
RECURSIVE Walk(_, _, _, _)
Walk(h, x, lvl, k) ==
    IF isNode(x)
    THEN Walk(h, h[getNode(x)][ChildIndex(lvl, k)], Dec32(lvl), k)
    ELSE x

LookupIn(h, r, k) == GetResult(getLeaf(Walk(h, r, TOP_LEVEL, k)), k)

Lookup(k) == LookupIn(heap, root, k)

\* ------------------------------------------------------------------- specs
InsertStart(t, v) == CanStart(t) /\ NotGiven(v) /\ InsertCall(t, v)

GetStart(t, k) == CanStart(t) /\ GetCall(t, k)

SeqInsertStart(t, v) == SeqCanStart(t) /\ InsertCall(t, v)

SeqGetStart(t, k) == SeqCanStart(t) /\ GetCall(t, k)

InsertStep(t) ==
    \/ InsertLoad(t)
    \/ InsertDescend(t)
    \/ InsertCasEmpty(t)
    \/ InsertLeaf(t)
    \/ InsertCasSplit(t)

GetStep(t) ==
    \/ GetLoad(t)
    \/ GetDescend(t)
    \/ GetReturn(t)

Step(t) == InsertStep(t) \/ GetStep(t)

Next ==
    \/ \E t \in Threads, v \in ValuePtrs : InsertStart(t, v)
    \/ \E t \in Threads, k \in GetKeys : GetStart(t, k)
    \/ \E t \in Threads : Step(t)

Spec == Init /\ [][Next]_vars

\* The concurrent runs of MaxCalls calls that are all inserts.
InsNext ==
    \/ \E t \in Threads, v \in ValuePtrs : InsertStart(t, v)
    \/ \E t \in Threads : InsertStep(t)

SpecIns == Init /\ [][InsNext]_vars

SeqNext ==
    \/ \E t \in Threads, v \in ValuePtrs : SeqInsertStart(t, v)
    \/ \E t \in Threads, k \in SeqGetKeys : SeqGetStart(t, k)
    \/ \E t \in Threads : Step(t)

SpecSeq == SeqInit /\ [][SeqNext]_vars

\* Concurrent inserts of the objects with the ids of the sequential runs.
DeepInsertStart(t, v) ==
    /\ FirstIdle(t)
    /\ calls < MaxDeepCalls
    /\ NotGiven(v)
    /\ InsertCall(t, v)

DeepNext ==
    \/ \E t \in Threads, v \in ValuePtrs : DeepInsertStart(t, v)
    \/ \E t \in Threads : InsertStep(t)

SpecDeep == SeqInit /\ [][DeepNext]_vars

\* The concurrent runs in which every thread that is in a call is scheduled
\* again.
FairSpec ==
    /\ Init
    /\ [][Next]_vars
    /\ \A t \in Threads : WF_vars(Step(t))

\* ------------------------------------------------------------ observations
Quiet == \A t \in Threads : pc[t] = "idle"

\* The T objects some insert call was given.
Given == {v \in ValuePtrs : nStarted[v] > 0}

WithId(S, k) == {v \in S : id[v] = k}

DistinctIds(S) == \A v, w \in S : v # w => id[v] # id[w]

RECURSIVE SumOver(_, _)
SumOver(f, S) ==
    IF S = {} THEN 0
    ELSE LET x == CHOOSE y \in S : TRUE
         IN  f[x] + SumOver(f, S \ {x})

\* The number of insert calls given an object with the id k.
StartedWith(k) == SumOver(nStarted, WithId(ValuePtrs, k))

\* The published nodes reachable from slot value x.
RECURSIVE NodesIn(_, _)
NodesIn(h, x) ==
    IF isNode(x)
    THEN {getNode(x)} \cup
         UNION {NodesIn(h, h[getNode(x)][i]) : i \in 0 .. (CHILD_PER_LEVEL - 1)}
    ELSE {}

SetMax(S) == CHOOSE m \in S : \A n \in S : n <= m

\* The length of the longest chain of nested nodes that starts at x.
RECURSIVE ChainIn(_, _)
ChainIn(h, x) ==
    IF isNode(x)
    THEN 1 + SetMax({ChainIn(h, h[getNode(x)][i]) :
                        i \in 0 .. (CHILD_PER_LEVEL - 1)})
    ELSE 0

\* A thread is in an insert that has split a slot.
SplitterRuns == \E u \in Threads : op[u] = "insert" /\ wrote[u] > 0

\* ------------------------------------------------------------------ claims

\* C1: once insert(v) has returned true, every get(v.getId()) that starts
\* afterwards returns v, whatever inserts (splits of the slot of v included)
\* run at the same time.
C1_InsertedIsFound ==
    last.op = "get" => \A v \in last.mustSee : last.ret = v

\* A get has returned the object accepted before it started, the root slot
\* has been split, and a thread that has split a slot is still inserting.
C1_Witness ==
    /\ last.op = "get" /\ last.mustSee # {} /\ last.ret \in last.mustSee
    /\ isNode(root)
    /\ SplitterRuns

\* C2: of the insert calls given objects with one id k, exactly one returns
\* true and all the others return false, and once all calls have returned
\* get(k) yields the object of the call that returned true.
C2_OneWinner ==
    \A k \in {id[v] : v \in ValuePtrs} :
        LET S == WithId(ValuePtrs, k)
        IN  /\ SumOver(nTrue, S) <= 1
            /\ (Quiet /\ SumOver(nStarted, S) > 0) =>
                  /\ SumOver(nTrue, S) = 1
                  /\ SumOver(nFalse, S) = SumOver(nStarted, S) - 1
                  /\ Lookup(k) \in WithId(AcceptedSet, k)

\* Two objects with the same id have been inserted at the same time: the
\* call that returned false lost the CAS on the empty slot to the other.
C2_Witness ==
    /\ Quiet
    /\ last.op = "insert" /\ last.ret = 0 /\ last.fails > 0
    /\ nStarted[last.value] = 1
    /\ \E v \in ValuePtrs :
          /\ v # last.value /\ id[v] = last.key
          /\ nStarted[v] = 1 /\ nTrue[v] = 1
          /\ Lookup(last.key) = v

\* C3: an insert call whose object carries an id that no other insert call
\* was given returns true, under every interleaving, and once all calls have
\* returned get finds every such object by its id.
C3_DistinctAllInserted ==
    \A v \in Given :
        (StartedWith(id[v]) = 1) =>
            /\ nFalse[v] = 0
            /\ Quiet => (nTrue[v] = 1 /\ Lookup(id[v]) = v)

\* Two objects with different ids have been inserted at the same time (one
\* call lost a CAS to the other), both calls returned true and both objects
\* are found.
C3_Witness ==
    /\ Quiet
    /\ last.op = "insert" /\ last.ret = 1 /\ last.fails > 0
    /\ StartedWith(last.key) = 1
    /\ Lookup(last.key) = last.value
    /\ \E v \in AcceptedSet :
          /\ id[v] # last.key /\ StartedWith(id[v]) = 1
          /\ Lookup(id[v]) = v

\* C4, as claimed: after insert(v) returns false the tree holds an object
\* with the id of v and the call has modified no slot of the tree.
C4_FalseModifiesNoSlot ==
    (last.op = "insert" /\ last.ret = 0) =>
        /\ WithId(ReachableLeaves, last.key) # {}
        /\ last.wrote = 0

\* C4, amended: after insert(v) returns false the tree holds an object with
\* the id of v and no CAS of the call has changed the set of objects
\* reachable from the root (the call may have split leaf slots).
C4_FalseKeepsLeaves ==
    (last.op = "insert" /\ last.ret = 0) =>
        /\ WithId(ReachableLeaves, last.key) # {}
        /\ ~last.changed

\* An insert has returned false after it had split a slot.
C4_Witness ==
    /\ last.op = "insert" /\ last.ret = 0 /\ last.wrote > 0
    /\ WithId(ReachableLeaves, last.key) # {}

\* C5: get(k) returns null or an object with the id k that some insert call
\* was given; it returns null when no insert call was given an object with
\* the id k.
C5_GetReturnsGivenOrNull ==
    last.op = "get" =>
        /\ \/ last.ret = nullptr
           \/ (last.ret \in Given /\ id[last.ret] = last.key)
        /\ WithId(Given, last.key) = {} => last.ret = nullptr

\* A get that started before the object was accepted has returned it while
\* an insert is running.
C5_Witness ==
    /\ last.op = "get" /\ last.ret # nullptr /\ last.mustSee = {}
    /\ \E u \in Threads : op[u] = "insert"

\* C6: after objects with pairwise distinct ids have been inserted one after
\* another, in any order, into the empty tree, get returns each of them by
\* its id and null for every other id.
C6_RoundTrip ==
    DistinctIds(Given) =>
        /\ Quiet => \A k \in SeqGetKeys :
              Lookup(k) = IF WithId(Given, k) = {} THEN nullptr
                          ELSE CHOOSE v \in WithId(Given, k) : TRUE
        /\ last.op = "get" =>
              last.ret = IF last.mustSee = {} THEN nullptr
                         ELSE CHOOSE v \in last.mustSee : TRUE

\* Three objects with distinct ids are in the tree and a get has found one.
C6_Witness ==
    /\ Quiet /\ DistinctIds(Given) /\ Cardinality(Given) >= 3
    /\ Cardinality(ReachableLeaves) >= 3
    /\ last.op = "get" /\ last.ret # nullptr

\* C7: no step takes an object out of the set of objects reachable from the
\* root.
C7_LeavesNeverShrink ==
    [][LeavesIn(heap, root) \subseteq LeavesIn(heap', root')]_vars

\* A slot of a node below the root has been split and the objects that were
\* in the tree before are reachable.
C7_Witness ==
    /\ isNode(root)
    /\ ChainIn(heap, root) >= 2
    /\ Cardinality(ReachableLeaves) >= 2
    /\ ReachableLeaves = AcceptedSet

\* The objects of C8.
V01 == CHOOSE v \in ValuePtrs : id[v] = Key01
V11 == CHOOSE v \in ValuePtrs : id[v] = Key11

\* The step in which the insert of 0x00000011 returns true in a tree that
\* holds 0x00000001 only.
SecondOfC8 == AcceptedSet = {V01} /\ AcceptedSet' = {V01, V11}

\* C8, as claimed: with B=4 and W=32, inserting 0x00000001 and then
\* 0x00000011 leaves a chain of exactly two nested nodes.
C8_ChainOfTwo ==
    [][SecondOfC8 =>
          /\ ChainIn(heap', root') = 2
          /\ Cardinality(NodesIn(heap', root')) = 2]_vars

\* C8, amended: the chain has exactly seven nested nodes (one for each of
\* the levels 7 to 1), and get returns each of the two objects by its id.
C8_ChainOfSeven ==
    [][SecondOfC8 =>
          /\ ChainIn(heap', root') = 7
          /\ Cardinality(NodesIn(heap', root')) = 7
          /\ LookupIn(heap', root', Key01) = V01
          /\ LookupIn(heap', root', Key11) = V11]_vars

\* 0x00000001 and 0x00000011 are the two objects of the tree.
C8_Witness ==
    /\ Quiet /\ AcceptedSet = {V01, V11} /\ Given = {V01, V11}
    /\ last.op = "insert" /\ last.value = V11 /\ last.ret = 1
    /\ ChainIn(heap, root) = 7
    /\ Lookup(Key01) = V01 /\ Lookup(Key11) = V11

\* C9: when every thread that is in a call is scheduled again, every call
\* returns.
C9_EveryCallReturns ==
    \A t \in Threads : (pc[t] # "idle") ~> (pc[t] = "idle")

\* An insert that lost a CAS and split a slot has returned.
C9_Witness ==
    last.op = "insert" /\ last.fails > 0 /\ last.wrote > 1

\* The bound of C10 holds of the insert calls that run and of the call that
\* returned last.
StepsWithin(bound) ==
    /\ \A t \in Threads : steps[t] <= bound + fails[t]
    /\ last.steps <= bound + last.fails

\* C10, as claimed: an insert takes at most W/B + k descents and CAS
\* attempts, k the number of its CAS that failed.
C10_StepsWithinWB == StepsWithin(KEY_BITS \div BITS)

\* C10, amended: an insert takes at most 2 * (W/B) + 1 + k descents and CAS
\* attempts: W/B descents, W/B splits, the CAS on the empty slot and the k
\* CAS that failed.
C10_StepsWithinTwiceWB == StepsWithin(2 * (KEY_BITS \div BITS) + 1)

\* An insert that lost a CAS has returned after exactly 2 * (W/B) + 1 + k
\* steps.
C10_Witness ==
    /\ last.op = "insert" /\ last.fails > 0
    /\ last.steps = 2 * (KEY_BITS \div BITS) + 1 + last.fails

\* C11, as claimed: the RCULock of a call is taken before the first load of
\* the call, held at every load and CAS of it, and still held when the
\* caller has the leaf that get returned.
C11_GuardHeldForCaller ==
    /\ \A t \in Threads : pc[t] # "idle" => rcu[t] > 0
    /\ (last.op = "get" /\ last.ret # nullptr) => last.rcu > 0

\* C11, amended: the RCULock of a call is taken before the first load of the
\* call, held at every load and CAS of it, and released when the call
\* returns: the caller of get has the leaf without the guard of the call.
C11_GuardHeldInCall ==
    /\ \A t \in Threads : pc[t] # "idle" => rcu[t] = 1
    /\ \A t \in Threads : pc[t] = "idle" => rcu[t] = 0
    /\ last.op # "none" => last.rcu = 0

\* A get has returned a leaf to its caller while an insert is about to try
\* a CAS under its guard.
C11_Witness ==
    /\ last.op = "get" /\ last.ret # nullptr /\ last.rcu = 0
    /\ \E t \in Threads : pc[t] \in {"cas", "split"} /\ rcu[t] = 1

\* C12: an insert call that returns false has not installed its argument:
\* no CAS of the call has changed the set of objects reachable from the
\* root, no slot holds the object it was given, and the object does not
\* count as inserted.
C12_FalseInstallsNothing ==
    (last.op = "insert" /\ last.ret = 0) =>
        /\ ~last.changed
        /\ last.value \notin ReachableLeaves
        /\ nTrue[last.value] = 0

\* An insert that tried the CAS on the empty slot and lost it to an object
\* with the same id has returned false, and its object is not in the tree.
C12_Witness ==
    /\ last.op = "insert" /\ last.ret = 0 /\ last.fails > 0
    /\ last.value \notin ReachableLeaves
    /\ WithId(ReachableLeaves, last.key) # {}

\* A slot that held old holds new, h2 being the nodes published by then: the
\* slot is as it was, or went from empty to a leaf, or from a leaf to a node
\* that holds this leaf and nothing else.
SlotMove(h2, old, new) ==
    \/ new = old
    \/ old = EmptyElement /\ isLeaf(new) /\ getLeaf(new) # nullptr
    \/ /\ isLeaf(old) /\ getLeaf(old) # nullptr
       /\ isNode(new)
       /\ \E i \in 0 .. (CHILD_PER_LEVEL - 1) :
             /\ h2[getNode(new)][i] = old
             /\ \A j \in 0 .. (CHILD_PER_LEVEL - 1) :
                   j # i => h2[getNode(new)][j] = EmptyElement

\* C13: in every step the root slot and every slot of every published node
\* keeps its value or goes from empty to a leaf or from a leaf to a node
\* that holds that leaf; nothing else happens to a slot under any
\* interleaving.
C13_SlotStateMachine ==
    [][/\ SlotMove(heap', root, root')
       /\ \A a \in DOMAIN heap : \A i \in 0 .. (CHILD_PER_LEVEL - 1) :
             SlotMove(heap', heap[a][i], heap'[a][i])]_vars

\* A slot of a published node has gone from a leaf to a node, and a slot of
\* that node, empty when the node was published, to a leaf.
C13_Witness ==
    \E a \in DOMAIN heap : \E i, j, k \in 0 .. (CHILD_PER_LEVEL - 1) :
        /\ isNode(heap[a][i])
        /\ j # k
        /\ isLeaf(heap[getNode(heap[a][i])][j])
        /\ getLeaf(heap[getNode(heap[a][i])][j]) # nullptr
        /\ isLeaf(heap[getNode(heap[a][i])][k])
        /\ getLeaf(heap[getNode(heap[a][i])][k]) # nullptr

\* Below the slot value x, whose node has the level L and which was reached
\* by the indexes P (pairs of a level and the index taken at it), every
\* leaf has, at every level on its path, the chunk by which it was reached.
RECURSIVE PathOk(_, _, _, _)
PathOk(h, x, L, P) ==
    IF isNode(x)
    THEN \A i \in 0 .. (CHILD_PER_LEVEL - 1) :
             \/ h[getNode(x)][i] = EmptyElement
             \/ PathOk(h, h[getNode(x)][i], L - 1, P \cup {<<L, i>>})
    ELSE \/ getLeaf(x) = nullptr
         \/ \A c \in P :
               (id[getLeaf(x)] \div (2 ^ (c[1] * BITS))) % (2 ^ BITS) = c[2]

\* C14: every reachable leaf sits on the path of its own id: each node on
\* the way from the root to it is entered at the chunk of the id for the
\* level of the node, TOP_LEVEL for the node in the root slot and one less
\* for each step down.
C14_LeafOnOwnPath == PathOk(heap, root, TOP_LEVEL, {})

\* The splits of a running insert have moved a leaf from the root slot
\* into a node below the node of the root slot.
C14_Witness ==
    /\ ChainIn(heap, root) >= 2
    /\ ReachableLeaves # {}
    /\ \E t \in Threads : op[t] = "insert" /\ wrote[t] >= 2

\* The node that holds the element x at the chunk of level L of the id of
\* the leaf of x and the empty element in every other slot.
OnlyLeafAt(L, x) ==
    [i \in 0 .. (CHILD_PER_LEVEL - 1) |->
        IF i = (id[getLeaf(x)] \div (2 ^ (L * BITS))) % (2 ^ BITS)
        THEN x ELSE EmptyElement]

\* C15, as claimed: the node that insert has allocated for a split holds
\* the leaf in place at the chunk of that leaf for level - 1, level being
\* the level counter of the insert at the split, and nothing else.
C15_LeafAtChunkBelowLevel ==
    \A t \in Threads :
        pc[t] = "split" => newChild[t] = <<OnlyLeafAt(level[t] - 1, e[t])>>

\* C15, amended: the node holds the leaf in place at the chunk of that leaf
\* for level, the chunk by which the insert enters the node next, and
\* nothing else.
C15_LeafAtChunkOfLevel ==
    \A t \in Threads :
        pc[t] = "split" =>
            /\ isLeaf(e[t]) /\ getLeaf(e[t]) # nullptr
            /\ newChild[t] = <<OnlyLeafAt(level[t], e[t])>>

\* An insert below the root has allocated the node for a leaf whose chunks
\* for level and for level - 1 differ.
C15_Witness ==
    \E t \in Threads :
        /\ pc[t] = "split" /\ level[t] < TOP_LEVEL
        /\ OnlyLeafAt(level[t], e[t]) # OnlyLeafAt(level[t] - 1, e[t])

\* The slots of the tree: the root slot and the slots of the published
\* nodes.
Slots ==
    {RootPtr} \cup
    {<<a, i>> : a \in DOMAIN heap, i \in 0 .. (CHILD_PER_LEVEL - 1)}

\* The slots that hold a node.
NodeSlots == {p \in Slots : isNode(Load(p))}

\* Every node that a slot or the local e of a thread refers to is published,
\* and every published node is referred to by exactly one slot.
NodesPublishedOnce ==
    /\ {getNode(Load(p)) : p \in NodeSlots} = DOMAIN heap
    /\ Cardinality(NodeSlots) = Cardinality(DOMAIN heap)
    /\ \A t \in Threads : isNode(e[t]) => getNode(e[t]) \in DOMAIN heap

\* The step of thread t is the CAS of line 132.
SplitCasOf(t) == pc[t] = "split" /\ pc'[t] = "load"

\* C16: a node gets into the tree by the successful CAS of the insert that
\* allocated it and in no other way: a CAS of line 132 that fails leaves
\* the tree as it is and the node of its thread is dropped, a node is
\* published by a CAS of line 132 that succeeds only, and no slot and no
\* thread refers to a node that is not published.
C16_OnlyCasPublishes ==
    [][/\ NodesPublishedOnce
       /\ \A t \in Threads :
             (SplitCasOf(t) /\ Load(eptr[t]) # e[t]) =>
                 (tree' = tree /\ newChild'[t] = << >>)
       /\ (DOMAIN heap' # DOMAIN heap) =>
             \E t \in Threads :
                 /\ SplitCasOf(t) /\ Load(eptr[t]) = e[t]
                 /\ DOMAIN heap' = (DOMAIN heap) \cup {NextNodePtr}
                 /\ heap'[NextNodePtr] = newChild[t][1]]_vars

\* The CAS of line 132 of an insert has failed: the slot holds the node of
\* another insert, and the tree has this one node.
C16_Witness ==
    /\ NodesPublishedOnce
    /\ Cardinality(DOMAIN heap) = 1
    /\ \E t \in Threads :
          /\ pc[t] = "load" /\ newChild[t] = << >>
          /\ fails[t] > 0 /\ wrote[t] = 0
          /\ isNode(e[t]) /\ Load(eptr[t]) = e[t]

\* C17: getNode is called on node-tagged elements that refer to a published
\* node (lines 76, 106), getLeaf on leaf-tagged elements (lines 79, 111,
\* 123), the leaf whose id insert reads (line 123) is not null, and no slot
\* holds the null node.
C17_TagsMatch ==
    /\ \A t \in Threads :
          /\ pc[t] \in {"descend", "gdescend"} =>
                /\ isNode(e[t]) /\ getNode(e[t]) # nullptr
                /\ getNode(e[t]) \in DOMAIN heap
          /\ pc[t] \in {"cas", "leaf", "split", "gleaf"} => isLeaf(e[t])
          /\ pc[t] \in {"leaf", "split"} => getLeaf(e[t]) \in ValuePtrs
    /\ \A p \in Slots : Load(p) # NodeElement(nullptr)

\* The CAS on the empty root slot has failed, and the insert is about to
\* read the id of the leaf that the CAS found in the slot.
C17_Witness ==
    \E t \in Threads :
        /\ pc[t] = "leaf" /\ eptr[t] = RootPtr
        /\ steps[t] = 1 /\ fails[t] = 1
        /\ isLeaf(e[t]) /\ getLeaf(e[t]) \in ValuePtrs

\* The slot value x, reached by the chunks of the levels above L, is what
\* the set S of objects calls for, S being the inserted objects whose ids
\* have these chunks: a node when S has two ids or more, with every slot
\* being what the objects of S with its chunk of level L call for; the
\* leaf of the object when S has one id; empty otherwise.
RECURSIVE ShapeOk(_, _, _, _)
ShapeOk(h, x, L, S) ==
    IF Cardinality({id[v] : v \in S}) >= 2
    THEN /\ isNode(x)
         /\ \A i \in 0 .. (CHILD_PER_LEVEL - 1) :
               ShapeOk(h, h[getNode(x)][i], L - 1,
                       {v \in S : (id[v] \div (2 ^ (L * BITS))) % (2 ^ BITS) = i})
    ELSE IF S = {} THEN x = EmptyElement
    ELSE \E v \in S : x = LeafElement(v)

\* C18: once all calls have returned, the tree has the shape that the set
\* of the ids whose insert returned true calls for, whatever the order and
\* the interleaving of the inserts were: a node where two of the ids or
\* more share the prefix, a leaf at the shallowest slot whose prefix no
\* other id shares.
C18_ShapeOfIdSet ==
    Quiet => ShapeOk(heap, root, TOP_LEVEL, AcceptedSet)

\* Two inserts whose ids differ in the chunk of level 0 only have run at
\* the same time, one has lost a CAS to the other, and both have returned
\* true.
C18_Witness ==
    /\ Quiet /\ Cardinality(AcceptedSet) = 2
    /\ ChainIn(heap, root) = TOP_LEVEL + 1
    /\ last.op = "insert" /\ last.ret = 1 /\ last.fails > 0

\* The number of the slots reachable from the slot value x, x included, that
\* hold a leaf; LeafSlotsFrom counts those of the slots i, i + 1, ... of
\* the node a.
RECURSIVE LeafSlotsIn(_, _)
RECURSIVE LeafSlotsFrom(_, _, _)
LeafSlotsIn(h, x) ==
    IF isNode(x) THEN LeafSlotsFrom(h, getNode(x), 0)
    ELSE IF getLeaf(x) = nullptr THEN 0 ELSE 1

LeafSlotsFrom(h, a, i) ==
    IF i = CHILD_PER_LEVEL THEN 0
    ELSE LeafSlotsIn(h, h[a][i]) + LeafSlotsFrom(h, a, i + 1)

\* C19: no two reachable slots hold leaves with the same id; so no two hold
\* the same object either.
C19_OneSlotPerId ==
    LeafSlotsIn(heap, root) = Cardinality({id[v] : v \in ReachableLeaves})

\* Two objects with one id have been given to inserts that ran at the same
\* time, a leaf has been moved into a node by a split, and one slot holds
\* an object with that id.
C19_Witness ==
    /\ Quiet /\ isNode(root)
    /\ \E v, w \in Given : v # w /\ id[v] = id[w]
    /\ last.op = "insert" /\ last.ret = 0 /\ last.fails > 0
    /\ Cardinality(WithId(ReachableLeaves, last.key)) = 1
    /\ LeafSlotsIn(heap, root) = 2

\* C20: the level with which get and insert index a node (lines 76, 106)
\* and with which insert allocates the node of a split (line 131) is one of
\* 0 .. TOP_LEVEL, no chain of nodes is longer than TOP_LEVEL + 1, and get
\* has descended TOP_LEVEL + 1 times at most.
C20_LevelInRange ==
    /\ \A t \in Threads :
          /\ pc[t] \in {"descend", "gdescend", "split"} =>
                level[t] \in 0 .. TOP_LEVEL
          /\ (pc[t] = "leaf" /\ key[t] # id[getLeaf(e[t])]) =>
                level[t] \in 0 .. TOP_LEVEL
          /\ op[t] = "get" => TOP_LEVEL - level[t] \in 0 .. (TOP_LEVEL + 1)
    /\ ChainIn(heap, root) <= TOP_LEVEL + 1

\* A get has descended through a chain of TOP_LEVEL + 1 nodes: its level
\* counter has gone below 0 and is not used again.
C20_Witness ==
    /\ ChainIn(heap, root) = TOP_LEVEL + 1
    /\ \E t \in Threads :
          /\ pc[t] = "gleaf" /\ level[t] = Dec32(0)
          /\ getLeaf(e[t]) \in ValuePtrs

====
